---------------------------- MODULE Spec2Model ----------------------------
(***************************************************************************)
(* Model of app/api/chat/route.ts: the POST handler of the chat route.     *)
(*                                                                         *)
(* One request is modelled.  The handler suspends at every await, so there *)
(* is one action per resolution of an awaited call: it runs the code from  *)
(* that resolution to the next awaited call (or to the return).            *)
(*                                                                         *)
(* Text is modelled as a sequence of segments.  A segment is a record      *)
(* [k, title, org, location]; k names the piece of text:                   *)
(*   "T"    a run of plain text with no blank line and no heading          *)
(*   "PP"   the two characters "\n\n"                                      *)
(*   "NL"   the single character "\n"                                      *)
(*   "NSC"  the heading  **Next Steps:**   (colon inside the bold)         *)
(*   "nsc"  the same heading in another letter case, **next steps:**       *)
(*   "NS"   the heading  **Next Steps**    (no colon)                      *)
(*   "featured"  the heading **Featured<locTxt>:**, location = locTxt      *)
(*   "bullet"    one line - **title** -- org (location)                    *)
(*   "canonBody" the five fixed lines under the canonical heading          *)
(***************************************************************************)
EXTENDS Integers, Sequences, FiniteSets, TLC

VARIABLES
    pc,                \* position of POST
    epc,               \* position of the onFinal callback
    messagesForLLM,    \* route.ts:72
    lastUserRaw,       \* route.ts:73
    effectiveLocation, \* route.ts:74
    internalRAG,       \* route.ts:75
    intent,            \* route.ts:76
    domainGuarded,     \* preambleResult.domainGuarded, route.ts:95
    caught,            \* what the catch block caught, and who threw it
    response,          \* what POST returned to the caller
    sentMessages,      \* the messages argument of the completion call
    calls,             \* number of calls made to each collaborator
    stream,            \* state of the token stream
    forwarded,         \* tokens forwarded to the caller so far
    completion,        \* the argument onFinal was called with
    featured,          \* outcome of findFeaturedMatching
    generated,         \* outcome of generateFollowups, called by onFinal
    finalAnswer,       \* finalAnswerWithSteps, route.ts:150
    finalMessages,     \* route.ts:165
    data,              \* the experimental_StreamData side channel
    events             \* what happened, in order

vars == <<pc, epc, messagesForLLM, lastUserRaw, effectiveLocation, internalRAG,
          intent, domainGuarded, caught, response, sentMessages, calls, stream,
          forwarded, completion, featured, generated, finalAnswer, finalMessages,
          data, events>>

-----------------------------------------------------------------------------
(* Bounds *)

MaxTokens == 2

MaxMsgs == 2

MaxListings == 2

MaxPhrases == 2

-----------------------------------------------------------------------------
(* Text *)

Seg(k) == [k |-> k, title |-> "", org |-> "", location |-> ""]

Null == "<null>"

Undefined == "<undefined>"

\* JavaScript truthiness of a string | null
Truthy(s) == s \notin {Null, Undefined, ""}

\* a ?? undefined
OrUndefined(s) == IF s = Null THEN Undefined ELSE s

RECURSIVE SeqsUpTo(_, _)
SeqsUpTo(S, n) ==
    IF n = 0 THEN {<<>>}
    ELSE LET shorter == SeqsUpTo(S, n - 1)
         IN  shorter \cup {Append(s, x) : s \in {t \in shorter : Len(t) = n - 1}, x \in S}


Join(a, b) == a \o b

\* '\n'-joined lines
RECURSIVE JoinLines(_)
JoinLines(ls) ==
    IF Len(ls) = 0 THEN <<>>
    ELSE IF Len(ls) = 1 THEN <<ls[1]>>
    ELSE <<ls[1], Seg("NL")>> \o JoinLines(Tail(ls))

-----------------------------------------------------------------------------
(* Constants of the route *)

GuardAnswer ==
    "I focus on modern manufacturing careers. We can explore roles like CNC Machinist, Robotics Technician, Welding Programmer, Additive Manufacturing, Maintenance Tech, or Quality Control."

LocationAnswer ==
    "To find local results, please set your location using the button in the header."

ApologyAnswer == "Sorry, I couldn't process that."

LOCATION_REQUIRED == "LOCATION_REQUIRED"

defaultFollowups ==
    SubSeq(<<"Find local apprenticeships",
             "Explore training programs",
             "Compare typical salaries (BLS)">>, 1, 3)

COACH_SYSTEM == <<Seg("COACH_SYSTEM")>>

Message(id, role, content) == [id |-> id, role |-> role, content |-> content]

-----------------------------------------------------------------------------
(* Intent classification.  A user text is a sequence of phrases; includes  *)
(* is membership of a phrase.                                              *)

toLowerCase(w) ==
    CASE w = "QUIZ" -> "quiz"
      [] w = "Which Career" -> "which career"
      [] w = "Explain" -> "explain"
      [] w = "How Does" -> "how does"
      [] OTHER -> w

includes(text, phrase) == \E i \in DOMAIN text : text[i] = phrase

\* the explain phrases tested before the quiz phrases
classifyIntentExplainFirst(userText) ==
    LET text == [i \in DOMAIN userText |-> toLowerCase(userText[i])]
    IN  IF \/ includes(text, "explain")
           \/ includes(text, "difference between")
           \/ includes(text, "what is the difference")
           \/ includes(text, "how does")
        THEN "explain"
        ELSE IF \/ includes(text, "quiz")
                \/ includes(text, "assessment")
                \/ includes(text, "which career")
                \/ includes(text, "help me decide")
        THEN "quiz"
        ELSE "chat"

classifyIntent(userText) ==
    LET text == [i \in DOMAIN userText |-> toLowerCase(userText[i])]
    IN  IF \/ includes(text, "quiz")
           \/ includes(text, "assessment")
           \/ includes(text, "which career")
           \/ includes(text, "help me decide")
        THEN "quiz"
        ELSE IF \/ includes(text, "explain")
                \/ includes(text, "difference between")
                \/ includes(text, "what is the difference")
                \/ includes(text, "how does")
        THEN "explain"
        ELSE "chat"

-----------------------------------------------------------------------------
(* Response composition *)

systemMessages(loc) ==
    <<Message("system_prompt", "system", COACH_SYSTEM)>>
    \o (IF Truthy(loc)
        THEN <<Message("system_location", "system",
                       <<[Seg("userLocation") EXCEPT !.location = loc]>>)>>
        ELSE <<>>)

\* the system messages put after the conversation
composeMessagesHistoryFirst(loc, msgs) == msgs \o systemMessages(loc)

\* route.ts:119
composeMessages(loc, msgs) == systemMessages(loc) \o msgs

-----------------------------------------------------------------------------
(* Post-completion enrichment *)

bulletLine(f) ==
    [k |-> "bullet", title |-> f.title, org |-> f.org, location |-> f.location]

featuredBlock(fs, loc) ==
    LET locTxt == IF Truthy(loc) THEN loc ELSE ""
        lines  == JoinLines([i \in DOMAIN fs |-> bulletLine(fs[i])])
    IN  <<Seg("PP"), [Seg("featured") EXCEPT !.location = locTxt], Seg("NL")>>
        \o lines

\* route.ts:132-147; m is the outcome of findFeaturedMatching
answerWithFeatured(text, m, loc) ==
    IF ~m.threw /\ Len(m.list) > 0
    THEN Join(text, featuredBlock(m.list, loc))
    ELSE text

\* the indices where /\n\n\*\*Next Steps:\*\*/i matches
nextStepsMatches(text) ==
    {i \in 1..(Len(text) - 1) :
        text[i].k = "PP" /\ text[i + 1].k \in {"NSC", "nsc"}}

\* text.replace(/(\n\n\*\*Next Steps:\*\*.*)/is, '')
stripNextSteps(text) ==
    LET ms == nextStepsMatches(text)
    IN  IF ms = {} THEN text
        ELSE LET first == CHOOSE i \in ms : \A j \in ms : i <= j
             IN  SubSeq(text, 1, first - 1)

canonicalNextSteps == <<Seg("PP"), Seg("NS"), Seg("NL"), Seg("canonBody")>>

\* the next-steps block appended whatever internalRAG is
finalAnswerWithStepsAlways(text, rag) ==
    Join(stripNextSteps(text), canonicalNextSteps)

\* route.ts:150-162
finalAnswerWithSteps(text, rag) ==
    IF rag # ""
    THEN Join(stripNextSteps(text), canonicalNextSteps)
    ELSE text

\* the synthetic turn put in front of the conversation
buildFinalMessagesFront(msgs, answer) ==
    <<Message("final_answer", "assistant", answer)>> \o msgs

\* route.ts:165-168
buildFinalMessages(msgs, answer) ==
    msgs \o <<Message("final_answer", "assistant", answer)>>

-----------------------------------------------------------------------------
(* What the collaborators can hand back *)

MsgPool ==
    {Message("m1", "user", <<Seg("T")>>),
     Message("m2", "assistant", <<Seg("T"), Seg("PP"), Seg("T")>>)}

UserTexts == {<<>>, <<"QUIZ">>, <<"hello">>}

Locations == {Null, "", "Austin, TX"}

RAGs == {"", "ctx"}

\* orchestratePreamble resolves with one of these
PreambleResults ==
    [messagesForLLM    : SeqsUpTo(MsgPool, MaxMsgs),
     lastUserRaw       : UserTexts,
     effectiveLocation : Locations,
     internalRAG       : RAGs,
     domainGuarded     : BOOLEAN]

\* orchestratePreamble and the completion call reject with one of these
PreambleErrors == {LOCATION_REQUIRED, "OTHER"}

CompletionErrors == {"OTHER"}

\* the tokens of the completion stream
TokenAlphabet == {Seg("T"), Seg("PP"), Seg("NSC"), Seg("nsc"), Seg("NS")}

Listing(i) == [title |-> ToString(i), org |-> "org", location |-> "city"]

\* findFeaturedMatching resolves with a list or rejects
MatcherOutcomes ==
    {[threw |-> FALSE, list |-> [i \in 1..n |-> Listing(i)]] : n \in 0..MaxListings}
    \cup {[threw |-> TRUE, list |-> <<>>]}

\* generateFollowups resolves with up to 3 strings or rejects
FollowupOutcomes ==
    {[threw |-> FALSE, list |-> fs] :
        fs \in {<<>>, <<"q1">>, <<"q1", "q2">>, <<"q1", "q2", "q3">>}}
    \cup {[threw |-> TRUE, list |-> <<>>]}

-----------------------------------------------------------------------------
(* State *)

NoResponse == [kind |-> "none", status |-> 0, answer |-> "", followups |-> <<>>]

\* NextResponse.json(body, {status})
JsonResponse(status, answer, followups) ==
    [kind |-> "json", status |-> status, answer |-> answer, followups |-> followups]

\* new StreamingTextResponse(stream, {}, data)
StreamingTextResponse ==
    [kind |-> "stream", status |-> 200, answer |-> "", followups |-> <<>>]

NoOutcome == [threw |-> FALSE, list |-> <<>>]

NotCaught == [by |-> "none", message |-> ""]

Called(c, who) == [c EXCEPT ![who] = @ + 1]

Init ==
    /\ pc = "start"
    /\ epc = "idle"
    /\ messagesForLLM = <<>>
    /\ lastUserRaw = <<>>
    /\ effectiveLocation = Null
    /\ internalRAG = ""
    /\ intent = "chat"
    /\ domainGuarded = FALSE
    /\ caught = NotCaught
    /\ response = NoResponse
    /\ sentMessages = <<>>
    /\ calls = [preamble |-> 0, completion |-> 0, listing |-> 0, followups |-> 0]
    /\ stream = "none"
    /\ forwarded = <<>>
    /\ completion = <<>>
    /\ featured = NoOutcome
    /\ generated = NoOutcome
    /\ finalAnswer = <<>>
    /\ finalMessages = <<>>
    /\ data = [state |-> "none", payloads |-> <<>>]
    /\ events = <<>>

-----------------------------------------------------------------------------
(* POST *)

locals == <<messagesForLLM, lastUserRaw, effectiveLocation, internalRAG, intent,
            domainGuarded>>

streamVars == <<stream, forwarded, completion>>

enrichVars == <<epc, featured, generated, finalAnswer, finalMessages, data>>

\* the guard condition dropped
guardedNever(r) == FALSE

\* the classified intent wired into the guard
guardedUnlessQuiz(r) == r.domainGuarded /\ classifyIntent(r.lastUserRaw) # "quiz"

\* route.ts:95
guarded(r) == r.domainGuarded

\* the message compared with another string
isLocationRequiredTypo(e) == e = "LOCATION_MISSING"

\* route.ts:192
isLocationRequired(e) == e = LOCATION_REQUIRED

\* route.ts:96-100
guardResponse == JsonResponse(200, GuardAnswer, defaultFollowups)

\* route.ts:193-197
locationResponse == JsonResponse(200, LocationAnswer, <<>>)

\* the generated follow-ups and the defaults sent together
errorResponseMerged(errorFollowups) ==
    JsonResponse(500, ApologyAnswer, errorFollowups \o defaultFollowups)

\* route.ts:208-214
errorResponse(errorFollowups) ==
    JsonResponse(500, ApologyAnswer,
                 IF Len(errorFollowups) > 0 THEN errorFollowups ELSE defaultFollowups)

\* route.ts:69-80: the body is read and orchestratePreamble is called
POST_Begin ==
    /\ pc = "start"
    /\ pc' = "preamble"
    /\ calls' = Called(calls, "preamble")
    /\ events' = Append(events, "call:preamble")
    /\ UNCHANGED <<locals, caught, response, sentMessages, streamVars, enrichVars>>

\* the follow-ups generated before the location-required test
CatchGenerateFirst(by, e) ==
    /\ caught' = [by |-> by, message |-> e]
    /\ calls' = Called(calls, "followups")
    /\ pc' = "errorFollowups"
    /\ events' = events \o <<"catch", "call:followups">>
    /\ UNCHANGED response

\* route.ts:191-206: the catch block, up to the call of generateFollowups
Catch(by, e) ==
    /\ caught' = [by |-> by, message |-> e]
    /\ IF isLocationRequired(e)
       THEN /\ response' = locationResponse
            /\ pc' = "returned"
            /\ events' = events \o <<"catch", "respond">>
            /\ UNCHANGED calls
       ELSE /\ calls' = Called(calls, "followups")
            /\ pc' = "errorFollowups"
            /\ events' = events \o <<"catch", "call:followups">>
            /\ UNCHANGED response

\* route.ts:80-121: orchestratePreamble resolves; intent, guard, composition,
\* and the call of the completion service
PreambleReturns ==
    /\ pc = "preamble"
    /\ \E r \in PreambleResults :
        /\ messagesForLLM' = r.messagesForLLM
        /\ lastUserRaw' = r.lastUserRaw
        /\ effectiveLocation' = r.effectiveLocation
        /\ internalRAG' = r.internalRAG
        /\ domainGuarded' = r.domainGuarded
        /\ intent' = IF r.lastUserRaw # <<>> THEN classifyIntent(r.lastUserRaw) ELSE intent
        /\ IF guarded(r)
           THEN /\ response' = guardResponse
                /\ pc' = "returned"
                /\ events' = events \o <<"guard", "respond">>
                /\ UNCHANGED <<sentMessages, calls>>
           ELSE /\ sentMessages' = composeMessages(r.effectiveLocation, r.messagesForLLM)
                /\ calls' = Called(calls, "completion")
                /\ pc' = "completion"
                /\ events' = Append(events, "call:completion")
                /\ UNCHANGED response
    /\ UNCHANGED <<caught, streamVars, enrichVars>>

\* route.ts:80, 191-206: orchestratePreamble rejects
PreambleThrows ==
    /\ pc = "preamble"
    /\ \E e \in PreambleErrors : Catch("preamble", e)
    /\ UNCHANGED <<locals, sentMessages, streamVars, enrichVars>>

\* route.ts:116-121, 191-206: the completion call rejects
CompletionThrows ==
    /\ pc = "completion"
    /\ \E e \in CompletionErrors : Catch("completion", e)
    /\ UNCHANGED <<locals, sentMessages, streamVars, enrichVars>>

\* route.ts:116-189: the completion call resolves; the side channel and the
\* stream are built and the streaming response is returned
CompletionReturns ==
    /\ pc = "completion"
    /\ data' = [state |-> "open", payloads |-> <<>>]
    /\ stream' = "streaming"
    /\ response' = StreamingTextResponse
    /\ pc' = "returned"
    /\ events' = Append(events, "respond")
    /\ UNCHANGED <<locals, caught, sentMessages, calls, forwarded, completion,
                   epc, featured, generated, finalAnswer, finalMessages>>

\* generateFollowups called a second time after it failed
ErrorFollowupsRetry ==
    /\ pc = "errorFollowups"
    /\ \E o \in FollowupOutcomes :
        IF o.threw /\ calls.followups < 2
        THEN /\ calls' = Called(calls, "followups")
             /\ events' = Append(events, "call:followups")
             /\ UNCHANGED <<pc, response>>
        ELSE IF o.threw
        THEN /\ pc' = "rejected"
             /\ events' = Append(events, "reject")
             /\ UNCHANGED <<response, calls>>
        ELSE /\ response' = errorResponse(o.list)
             /\ pc' = "returned"
             /\ events' = Append(events, "respond")
             /\ UNCHANGED calls
    /\ UNCHANGED <<locals, caught, sentMessages, streamVars, enrichVars>>

\* route.ts:202-214: generateFollowups, called by the catch block, settles
ErrorFollowupsSettle ==
    /\ pc = "errorFollowups"
    /\ \E o \in FollowupOutcomes :
        IF o.threw
        THEN /\ pc' = "rejected"
             /\ events' = Append(events, "reject")
             /\ UNCHANGED response
        ELSE /\ response' = errorResponse(o.list)
             /\ pc' = "returned"
             /\ events' = Append(events, "respond")
    /\ UNCHANGED <<locals, caught, sentMessages, calls, streamVars, enrichVars>>

-----------------------------------------------------------------------------
(* OpenAIStream and the onFinal callback *)

\* only the last token handed over
aggregateLast(tokens) ==
    IF tokens = <<>> THEN <<>> ELSE <<tokens[Len(tokens)]>>

\* route.ts:128: what OpenAIStream hands to onFinal, the aggregated text
aggregate(tokens) == tokens

\* whether OpenAIStream may call onFinal
onFinalDue == stream = "streaming"

\* route.ts:127: the stream forwards one token to the caller
StreamToken ==
    /\ stream = "streaming"
    /\ Len(forwarded) < MaxTokens
    /\ \E t \in TokenAlphabet : forwarded' = Append(forwarded, t)
    /\ events' = Append(events, "token")
    /\ UNCHANGED <<pc, locals, caught, response, sentMessages, calls, stream,
                   completion, enrichVars>>

\* route.ts:127: the stream fails in flight; onFinal is not called
StreamError ==
    /\ stream = "streaming"
    /\ stream' = "errored"
    /\ events' = Append(events, "streamError")
    /\ UNCHANGED <<pc, locals, caught, response, sentMessages, calls, forwarded,
                   completion, enrichVars>>

\* route.ts:127-137: the stream ends, onFinal is called and calls
\* findFeaturedMatching
StreamEnd ==
    /\ onFinalDue
    /\ epc = "idle"
    /\ stream' = "ended"
    /\ completion' = aggregate(forwarded)
    /\ calls' = Called(calls, "listing")
    /\ epc' = "listing"
    /\ events' = events \o <<"end", "onFinal", "call:listing">>
    /\ UNCHANGED <<pc, locals, caught, response, sentMessages, forwarded,
                   featured, generated, finalAnswer, finalMessages, data>>

\* the synthetic turn pushed onto messagesForLLM itself
ListingSettlesPush ==
    /\ epc = "listing"
    /\ \E m \in MatcherOutcomes :
        /\ featured' = m
        /\ finalAnswer' =
              finalAnswerWithSteps(
                  answerWithFeatured(completion, m, effectiveLocation), internalRAG)
        /\ finalMessages' = buildFinalMessages(messagesForLLM, finalAnswer')
    /\ messagesForLLM' = finalMessages'
    /\ calls' = Called(calls, "followups")
    /\ epc' = "followups"
    /\ events' = events \o <<"listing", "nextSteps", "call:followups">>
    /\ UNCHANGED <<pc, lastUserRaw, effectiveLocation, internalRAG, intent,
                   domainGuarded, caught, response, sentMessages, streamVars,
                   generated, data>>

\* route.ts:134-174: findFeaturedMatching settles; Featured block, next
\* steps, finalMessages, and the call of generateFollowups
ListingSettles ==
    /\ epc = "listing"
    /\ \E m \in MatcherOutcomes :
        /\ featured' = m
        /\ finalAnswer' =
              finalAnswerWithSteps(
                  answerWithFeatured(completion, m, effectiveLocation), internalRAG)
        /\ finalMessages' = buildFinalMessages(messagesForLLM, finalAnswer')
    /\ calls' = Called(calls, "followups")
    /\ epc' = "followups"
    /\ events' = events \o <<"listing", "nextSteps", "call:followups">>
    /\ UNCHANGED <<pc, locals, caught, response, sentMessages, streamVars,
                   generated, data>>

\* route.ts:177-180: the object handed to data.append
finalPayload(answer, followups) == [finalAnswer |-> answer, followups |-> followups]

\* a failure inside onFinal answered by the error handler of POST
FollowupsSettleCaught ==
    /\ epc = "followups"
    /\ \E o \in FollowupOutcomes :
        /\ generated' = o
        /\ IF o.threw
           THEN /\ epc' = "rejected"
                /\ caught' = [by |-> "onFinal", message |-> "OTHER"]
                /\ response' = errorResponse(<<>>)
                /\ events' = events \o <<"catch", "respond">>
                /\ UNCHANGED data
           ELSE /\ data' = [state |-> "closed",
                            payloads |-> Append(data.payloads,
                                                finalPayload(finalAnswer, o.list))]
                /\ epc' = "done"
                /\ events' = events \o <<"append", "close">>
                /\ UNCHANGED <<caught, response>>
    /\ UNCHANGED <<pc, locals, sentMessages, calls, streamVars,
                   featured, finalAnswer, finalMessages>>

\* route.ts:170-183: generateFollowups, called by onFinal, settles
FollowupsSettle ==
    /\ epc = "followups"
    /\ \E o \in FollowupOutcomes :
        /\ generated' = o
        /\ IF o.threw
           THEN /\ epc' = "rejected"
                /\ events' = Append(events, "onFinal:reject")
                /\ UNCHANGED data
           ELSE /\ data' = [state |-> "closed",
                            payloads |-> Append(data.payloads,
                                                finalPayload(finalAnswer, o.list))]
                /\ epc' = "done"
                /\ events' = events \o <<"append", "close">>
    /\ UNCHANGED <<pc, locals, caught, response, sentMessages, calls, streamVars,
                   featured, finalAnswer, finalMessages>>

Next ==
    \/ POST_Begin
    \/ PreambleReturns
    \/ PreambleThrows
    \/ CompletionReturns
    \/ CompletionThrows
    \/ ErrorFollowupsSettle
    \/ StreamToken
    \/ StreamError
    \/ StreamEnd
    \/ ListingSettles
    \/ FollowupsSettle

Spec == Init /\ [][Next]_vars

-----------------------------------------------------------------------------
(* The second POST of the file, route.ts:252-396, which has no intent.  Its *)
(* code differs from the first POST only between the preamble call and the *)
(* guard, so only that step is written again; it says nothing of intent.   *)

obsVars == <<pc, epc, messagesForLLM, lastUserRaw, effectiveLocation, internalRAG,
             domainGuarded, caught, response, sentMessages, calls, stream,
             forwarded, completion, featured, generated, finalAnswer,
             finalMessages, data, events>>

\* route.ts:263-298: orchestratePreamble resolves; guard, composition, and the
\* call of the completion service
POSTv_PreambleReturns ==
    /\ pc = "preamble"
    /\ \E r \in PreambleResults :
        /\ messagesForLLM' = r.messagesForLLM
        /\ lastUserRaw' = r.lastUserRaw
        /\ effectiveLocation' = r.effectiveLocation
        /\ internalRAG' = r.internalRAG
        /\ domainGuarded' = r.domainGuarded
        /\ IF r.domainGuarded
           THEN /\ response' = JsonResponse(200, GuardAnswer, defaultFollowups)
                /\ pc' = "returned"
                /\ events' = events \o <<"guard", "respond">>
                /\ UNCHANGED <<sentMessages, calls>>
           ELSE /\ sentMessages' = systemMessages(r.effectiveLocation) \o r.messagesForLLM
                /\ calls' = Called(calls, "completion")
                /\ pc' = "completion"
                /\ events' = Append(events, "call:completion")
                /\ UNCHANGED response
    /\ UNCHANGED <<caught, streamVars, enrichVars>>

\* route.ts:252-396
POSTv_Next ==
    \/ POST_Begin
    \/ POSTv_PreambleReturns
    \/ PreambleThrows
    \/ CompletionReturns
    \/ CompletionThrows
    \/ ErrorFollowupsSettle
    \/ StreamToken
    \/ StreamError
    \/ StreamEnd
    \/ ListingSettles
    \/ FollowupsSettle

-----------------------------------------------------------------------------
(* classifyIntent on its own: the text is drawn at the start and classified *)

ClassifyPhrases ==
    {"quiz", "QUIZ", "assessment", "which career", "Which Career", "help me decide",
     "explain", "Explain", "difference between", "what is the difference",
     "how does", "How Does", "hello"}

ClassifyTexts == SeqsUpTo(ClassifyPhrases, MaxPhrases)

InitClassify ==
    /\ pc = "classify"
    /\ lastUserRaw \in ClassifyTexts
    /\ epc = "idle"
    /\ messagesForLLM = <<>>
    /\ effectiveLocation = Null
    /\ internalRAG = ""
    /\ intent = "chat"
    /\ domainGuarded = FALSE
    /\ caught = NotCaught
    /\ response = NoResponse
    /\ sentMessages = <<>>
    /\ calls = [preamble |-> 0, completion |-> 0, listing |-> 0, followups |-> 0]
    /\ stream = "none"
    /\ forwarded = <<>>
    /\ completion = <<>>
    /\ featured = NoOutcome
    /\ generated = NoOutcome
    /\ finalAnswer = <<>>
    /\ finalMessages = <<>>
    /\ data = [state |-> "none", payloads |-> <<>>]
    /\ events = <<>>

\* route.ts:35-57: classifyIntent(userText) returns
ClassifyStep ==
    /\ pc = "classify"
    /\ intent' = classifyIntent(lastUserRaw)
    /\ pc' = "classified"
    /\ events' = Append(events, "classify")
    /\ UNCHANGED <<epc, messagesForLLM, lastUserRaw, effectiveLocation, internalRAG,
                   domainGuarded, caught, response, sentMessages, calls, stream,
                   forwarded, completion, featured, generated, finalAnswer,
                   finalMessages, data>>

NextClassify == ClassifyStep

SpecClassify == InitClassify /\ [][NextClassify]_vars

-----------------------------------------------------------------------------
(* Properties *)

Count(seq, x) == Cardinality({i \in DOMAIN seq : seq[i] = x})

\* the number of next-steps headings in a text, whatever their spelling
nextStepsHeadings(text) ==
    Cardinality({i \in DOMAIN text : text[i].k \in {"NSC", "nsc", "NS"}})

EndsWith(text, tail) ==
    /\ Len(text) >= Len(tail)
    /\ SubSeq(text, Len(text) - Len(tail) + 1, Len(text)) = tail

StartsWith(text, head) ==
    /\ Len(text) >= Len(head)
    /\ SubSeq(text, 1, Len(head)) = head

Contains(text, part) ==
    \E i \in 1..(Len(text) - Len(part) + 1) :
        SubSeq(text, i, i + Len(part) - 1) = part

threeDefaults ==
    <<"Find local apprenticeships", "Explore training programs",
      "Compare typical salaries (BLS)">>

postSettled == pc \in {"returned", "rejected"}

enrichmentSettled == epc \in {"done", "rejected"}

\* C1: when the preamble result has domainGuarded = true, POST returns the
\* fixed off-topic answer with exactly the 3 default follow-ups and status
\* 200, and the completion service is never called.
C1_GuardShortCircuits ==
    domainGuarded =>
        /\ pc = "returned"
        /\ response = JsonResponse(200, GuardAnswer, threeDefaults)
        /\ Len(response.followups) = 3
        /\ calls.completion = 0
        /\ sentMessages = <<>>
        /\ stream = "none"

C1_Witness ==
    /\ domainGuarded
    /\ pc = "returned"
    /\ response.kind = "json"
    /\ Count(events, "guard") = 1

\* C2: on any thrown condition other than location-required, POST responds
\* with status 500, the apology and at least one follow-up; when the
\* follow-up generator fails in the handler the 3 defaults are sent.
C2_ErrorAlwaysAnswered ==
    (caught.by # "none" /\ caught.message # LOCATION_REQUIRED /\ postSettled) =>
        /\ response.kind = "json"
        /\ response.status = 500
        /\ response.answer = ApologyAnswer
        /\ Len(response.followups) >= 1
        /\ pc = "rejected" => response.followups = threeDefaults

\* C3: when the follow-up generator fails during enrichment, a final payload
\* with finalAnswer and the default follow-ups is still appended to the side
\* channel and the side channel is closed.
C3_EnrichmentSubstitutesDefaults ==
    (enrichmentSettled /\ (generated.threw \/ generated.list = <<>>)) =>
        /\ data.state = "closed"
        /\ data.payloads = <<finalPayload(finalAnswer, threeDefaults)>>

\* C4: whenever internalRAG is non-empty, the finalAnswer of the final payload
\* holds exactly one next-steps section, the canonical block, at its end.
C4_ExactlyOneNextSteps ==
    (epc = "done" /\ internalRAG # "") =>
        /\ nextStepsHeadings(data.payloads[1].finalAnswer) = 1
        /\ EndsWith(data.payloads[1].finalAnswer, canonicalNextSteps)

\* C5: whenever the listing matcher returns a non-empty sequence, the
\* finalAnswer of the final payload holds the Featured block with one bullet
\* per listing, for every raw answer and any internalRAG.
C5_FeaturedBlockKept ==
    (epc = "done" /\ ~featured.threw /\ Len(featured.list) > 0) =>
        /\ Contains(data.payloads[1].finalAnswer,
                    featuredBlock(featured.list, effectiveLocation))
        /\ Count([i \in DOMAIN data.payloads[1].finalAnswer |->
                     data.payloads[1].finalAnswer[i].k], "bullet")
               = Len(featured.list)

C7_PayloadOnceThenClosed ==
    /\ Len(data.payloads) <= 1
    /\ Len(data.payloads) = 1 => stream = "ended"
    /\ data.state = "closed" => Len(data.payloads) = 1
    /\ enrichmentSettled =>
          /\ Len(data.payloads) = 1
          /\ data.state = "closed"

\* C8: when the preamble signals location-required, POST returns status 200
\* with the instructional message and no follow-ups, and the completion
\* service is not called.
C8_LocationRequiredIsSuccess ==
    (caught.by = "preamble" /\ caught.message = LOCATION_REQUIRED) =>
        /\ pc = "returned"
        /\ response = JsonResponse(200, LocationAnswer, <<>>)
        /\ calls.completion = 0
        /\ stream = "none"

C8_Witness ==
    /\ caught = [by |-> "preamble", message |-> LOCATION_REQUIRED]
    /\ pc = "returned"
    /\ response.kind = "json"

\* C9: when the listing matcher throws, the finalAnswer is the raw answer
\* changed only by next-steps normalization, with no Featured block, and
\* follow-up generation, payload emission and side-channel close still happen.
C9_MatcherFailureSwallowed ==
    (featured.threw /\ enrichmentSettled) =>
        /\ finalAnswer = finalAnswerWithSteps(completion, internalRAG)
        /\ ~ \E i \in DOMAIN finalAnswer : finalAnswer[i].k \in {"featured", "bullet"}
        /\ calls.followups = 1
        /\ data.payloads = <<finalPayload(finalAnswer, generated.list)>>
        /\ data.state = "closed"

\* C10: when the completion call throws before streaming starts, the generic
\* handler answers with the 500 apology, no streaming response or side
\* channel is returned, and enrichment never runs.
C10_CompletionFailureHandled ==
    caught.by = "completion" =>
        /\ response.kind # "stream"
        /\ stream = "none"
        /\ data.state = "none"
        /\ epc = "idle"
        /\ calls.listing = 0
        /\ postSettled =>
              /\ response.kind = "json"
              /\ response.status = 500
              /\ response.answer = ApologyAnswer

\* C11: wherever a followups list is emitted (guard, location-required and
\* generic error responses, final payload) its length is at most 3, the
\* follow-up generator returning at most 3 strings.
C11_FollowupsAtMostThree ==
    /\ response.kind = "json" => Len(response.followups) <= 3
    /\ \A i \in DOMAIN data.payloads : Len(data.payloads[i].followups) <= 3

C11_Witness ==
    /\ pc = "returned"
    /\ response.status = 500
    /\ Len(response.followups) = 3
    /\ response.followups # threeDefaults

\* C12: when internalRAG is empty, enrichment adds no next-steps section and
\* strips nothing: finalAnswer is the raw answer followed only by the
\* Featured block when listings were matched, and the raw answer otherwise.
C12_NoRagLeavesAnswer ==
    (epc \in {"followups", "done", "rejected"} /\ internalRAG = "") =>
        /\ finalAnswer =
              IF ~featured.threw /\ Len(featured.list) > 0
              THEN forwarded \o featuredBlock(featured.list, effectiveLocation)
              ELSE forwarded
        /\ nextStepsHeadings(finalAnswer) = nextStepsHeadings(forwarded)
        /\ epc = "done" => data.payloads[1].finalAnswer = finalAnswer

C12_Witness ==
    /\ epc = "done"
    /\ internalRAG = ""
    /\ Len(featured.list) > 0
    /\ nextStepsMatches(forwarded) # {}
    /\ Len(data.payloads[1].finalAnswer) > Len(forwarded)

\* whether a text holds a phrase, letter case ignored
hasPhrase(text, phrase) == \E i \in DOMAIN text : toLowerCase(text[i]) = phrase

hasAny(text, phrases) == \E p \in phrases : hasPhrase(text, p)

\* C13 as stated: classifyIntent returns quiz when the text holds "quiz" or
\* "which career", explain when it holds "explain" or "how does" and no such
\* quiz phrase, and chat otherwise.
C13_ClassifyAsStated ==
    pc = "classified" =>
        intent = IF hasAny(lastUserRaw, {"quiz", "which career"}) THEN "quiz"
                 ELSE IF hasAny(lastUserRaw, {"explain", "how does"}) THEN "explain"
                 ELSE "chat"

\* C13 amended: classifyIntent returns quiz when the text holds "quiz",
\* "assessment", "which career" or "help me decide"; explain when it holds
\* "explain", "difference between", "what is the difference" or "how does"
\* and none of the four quiz phrases; and chat otherwise.
C13_ClassifyAllPhrases ==
    pc = "classified" =>
        intent = IF hasAny(lastUserRaw,
                           {"quiz", "assessment", "which career", "help me decide"})
                 THEN "quiz"
                 ELSE IF hasAny(lastUserRaw,
                                {"explain", "difference between",
                                 "what is the difference", "how does"})
                 THEN "explain"
                 ELSE "chat"

C13_Witness ==
    /\ pc = "classified"
    /\ intent = "quiz"
    /\ lastUserRaw = <<"Explain", "assessment">>

\* C14: the messages sent to the completion service are the base system
\* prompt, then the location system message exactly when effectiveLocation is
\* present and non-empty, then every message of messagesForLLM in its order.
C14_ComposedMessages ==
    calls.completion > 0 =>
        LET hasLoc == effectiveLocation \notin {Null, ""}
            n      == IF hasLoc THEN 2 ELSE 1
        IN  /\ Len(sentMessages) = n + Len(messagesForLLM)
            /\ sentMessages[1].id = "system_prompt"
            /\ sentMessages[1].role = "system"
            /\ sentMessages[1].content = COACH_SYSTEM
            /\ hasLoc =>
                  /\ sentMessages[2].id = "system_location"
                  /\ sentMessages[2].role = "system"
                  /\ sentMessages[2].content[1].location = effectiveLocation
            /\ \A i \in 1..Len(messagesForLLM) : sentMessages[n + i] = messagesForLLM[i]
            /\ Cardinality({i \in DOMAIN sentMessages :
                               sentMessages[i].id = "system_location"})
                   = IF hasLoc THEN 1 ELSE 0

C14_Witness ==
    /\ calls.completion = 1
    /\ effectiveLocation = "Austin, TX"
    /\ Len(messagesForLLM) = 2
    /\ messagesForLLM[1] # messagesForLLM[2]
    /\ Len(sentMessages) = 4

\* C15: the classified intent has no effect downstream: every step of the
\* handler that classifies the intent is, on everything but intent (branch
\* taken, messages sent, response, answer, followups), a step of the handler
\* that has no intent classification.
C15_IntentHasNoEffect == [][POSTv_Next]_obsVars

C15_Witness ==
    /\ intent = "quiz"
    /\ epc = "done"
    /\ response.kind = "stream"

IsEnrichmentEvent(x) ==
    x \in {"onFinal", "call:listing", "listing", "nextSteps", "call:followups",
           "append", "close"}

\* what enrichment did, in order
enrichmentEvents == SelectSeq(events, IsEnrichmentEvent)

\* C16: enrichment runs listing match, next-steps normalization, follow-up
\* generation, payload append and side-channel close in that order; the
\* follow-up generator gets messagesForLLM followed by one assistant message
\* holding the finalized answer, and the payload's finalAnswer is that text.
C16_EnrichmentOrder ==
    /\ epc = "listing" => enrichmentEvents = <<"onFinal", "call:listing">>
    /\ epc \in {"followups", "rejected"} =>
          enrichmentEvents =
              <<"onFinal", "call:listing", "listing", "nextSteps", "call:followups">>
    /\ epc = "done" =>
          enrichmentEvents =
              <<"onFinal", "call:listing", "listing", "nextSteps", "call:followups",
                "append", "close">>
    /\ epc \in {"followups", "done", "rejected"} =>
          /\ Len(finalMessages) = Len(messagesForLLM) + 1
          /\ SubSeq(finalMessages, 1, Len(messagesForLLM)) = messagesForLLM
          /\ finalMessages[Len(finalMessages)] =
                [id |-> "final_answer", role |-> "assistant", content |-> finalAnswer]
    /\ epc = "done" =>
          data.payloads[1].finalAnswer = finalMessages[Len(finalMessages)].content

C16_Witness ==
    /\ epc = "done"
    /\ Len(messagesForLLM) = 2
    /\ Len(featured.list) > 0
    /\ internalRAG # ""
    /\ Len(data.payloads[1].finalAnswer) > 0

\* C17: within one request each collaborator (preamble builder, completion
\* service, listing matcher, follow-up generator) is called at most once, on
\* every path; no call is retried after a failure, and the follow-up
\* generator is never called from both enrichment and the error handler.
C17_SingleAttempt ==
    /\ \A who \in DOMAIN calls : calls[who] <= 1
    /\ \A c \in {"call:preamble", "call:completion", "call:listing", "call:followups"} :
          Count(events, c) <= 1
    /\ ~ (Count(events, "catch") > 0 /\ Count(events, "onFinal") > 0)
    /\ pc = "rejected" => calls.followups = 1
    /\ epc = "rejected" => calls.followups = 1

C17_Witness ==
    /\ pc = "rejected"
    /\ caught.by = "completion"
    /\ calls = [preamble |-> 1, completion |-> 1, listing |-> 0, followups |-> 1]

\* C18: composition and enrichment never change the prior conversation: once
\* the preamble has returned messagesForLLM, its length, order and messages
\* stay as they were after the completion call is composed and after the
\* synthetic assistant turn is built; the new messages go to other sequences.
C18_HistoryNotMutated ==
    /\ [][pc \notin {"start", "preamble"} => messagesForLLM' = messagesForLLM]_vars
    /\ [](calls.completion > 0 =>
             /\ Len(sentMessages) >= Len(messagesForLLM)
             /\ SubSeq(sentMessages, Len(sentMessages) - Len(messagesForLLM) + 1,
                       Len(sentMessages)) = messagesForLLM
             /\ \A i \in DOMAIN messagesForLLM : messagesForLLM[i].role # "system")
    /\ [](epc \in {"followups", "done", "rejected"} =>
             /\ Len(finalMessages) = Len(messagesForLLM) + 1
             /\ \A i \in DOMAIN messagesForLLM : messagesForLLM[i].id # "final_answer")

C18_Witness ==
    /\ epc = "done"
    /\ Len(messagesForLLM) = 2
    /\ Len(sentMessages) = 4
    /\ Len(finalMessages) = 3

\* C19: a request produces at most one response, of one kind; once the
\* streaming response has been returned the error handler is never entered,
\* so a failure inside enrichment never yields the 500 apology response.
C19_OneResponse ==
    /\ [][response.kind # "none" => response' = response]_vars
    /\ [][response.kind = "stream" => (pc' = pc /\ caught' = caught)]_vars
    /\ [](Count(events, "respond") <= 1)
    /\ [](response.kind # "none" <=> Count(events, "respond") = 1)
    /\ [](response.kind = "json" =>
             response.answer \in {GuardAnswer, LocationAnswer, ApologyAnswer})
    /\ [](response.kind = "stream" =>
             /\ pc = "returned"
             /\ caught = NotCaught
             /\ Count(events, "catch") = 0)
    /\ [](epc = "rejected" =>
             /\ response.kind = "stream"
             /\ response.status = 200)

C19_Witness ==
    /\ epc = "rejected"
    /\ generated.threw
    /\ response.kind = "stream"

\* C20: on the guard path and on the location-required path neither the
\* listing matcher nor the follow-up generator is called; besides the step
\* that raised location-required only the preamble builder is called, and the
\* followups returned are constants.
C20_NoCollaboratorOnShortPaths ==
    /\ domainGuarded =>
          /\ calls = [preamble |-> 1, completion |-> 0, listing |-> 0, followups |-> 0]
          /\ response.followups = threeDefaults
          /\ epc = "idle"
    /\ caught.message = LOCATION_REQUIRED =>
          /\ calls.listing = 0
          /\ calls.followups = 0
          /\ calls.preamble = 1
          /\ calls.completion = (IF caught.by = "completion" THEN 1 ELSE 0)
          /\ response.followups = <<>>
          /\ response.kind = "json"
          /\ epc = "idle"

C20_Witness ==
    /\ pc = "returned"
    /\ caught.message = LOCATION_REQUIRED
    /\ response.answer = LocationAnswer
    /\ calls.preamble = 1

=============================================================================
